---- MODULE Spec2Model ----
(***************************************************************************)
(* State-machine model of the crawl service:                               *)
(*   - server.py: the /crawl and /task/{id} handlers, the task table, the  *)
(*     process_crawl coroutine and the asyncio semaphore that guards it;   *)
(*   - crawl_site.py: crawl_parallel and save_batch_results.               *)
(* The two programs share no state.  Spec runs the server and leaves the   *)
(* batch crawler in its initial state; SpecBatch does the converse.        *)
(***************************************************************************)
EXTENDS Integers, Sequences, FiniteSets, TLC

(***************************************************************************)
(* Bounds of the model and configuration of the program.                   *)
(***************************************************************************)
\* number of accepted submissions explored (uuid4 calls)
MaxTasks == 3

\* server.py:41, int(os.getenv("MAX_CONCURRENT_TASKS", "5")); run with MAX_CONCURRENT_TASKS=2
MAX_CONCURRENT_TASKS == 2

\* longest url list handed to crawl_parallel
MaxUrls == 4

\* largest max_concurrent handed to crawl_parallel
MaxBatch == 3

\* most requests at a time between their dependencies and their handler
MaxInFlight == 2

VARIABLES
    tasks,        \* server.py: tasks, the task table (task_id -> record)
    sem_value,    \* task_semaphore._value
    sem_waiters,  \* task_semaphore._waiters, oldest first
    pc,           \* position of each process_crawl coroutine
    req,          \* the CrawlRequest each process_crawl was created with
    ready,        \* event loop's ready queue of process_crawl coroutines
    uuid_calls,   \* number of uuid.uuid4() calls made so far
    returned,     \* task ids returned by POST /crawl so far, in order
    last,         \* the operation that ran last and what it answered
    cp,           \* state of one crawl_parallel run (crawl_site.py)
    auth,         \* API_TOKEN, the requests between their dependencies and their handler,
                  \* and the credentials and token of the request answered last
    pt,           \* the page_timeout of one request on its way to the renderer
    sm            \* state of one run of main and get_sitemap_urls (crawl_site.py)

serverVars == <<tasks, sem_value, sem_waiters, pc, req, ready, uuid_calls, returned, last>>
vars == <<tasks, sem_value, sem_waiters, pc, req, ready, uuid_calls, returned, last, cp, auth, pt, sm>>

(***************************************************************************)
(* server.py: values                                                       *)
(***************************************************************************)
TaskIds == 1..MaxTasks

\* ids a client may ask about; 0 is an id that uuid4 never produces
QueryIds == 0..MaxTasks

\* Python's None
None == [none |-> TRUE]

\* urls: Union[str, List[str]]
UrlStr(u) == [is_str |-> TRUE, items |-> <<u>>]
UrlList(l) == [is_str |-> FALSE, items |-> l]

RequestUrls == {UrlStr("a"), UrlList(<<>>), UrlList(<<"b", "a">>)}

\* the CrawlRequest fields that process_crawl and crawl branch on
CrawlRequest == [urls : RequestUrls, use_llm : BOOLEAN]

NoRequest == [urls |-> UrlList(<<>>), use_llm |-> FALSE]

\* what crawler.arun can do:
\*   success      return a result with success, from which the completed record is built
\*   success_bad  return a result with success whose fields make building the record
\*                raise (markdown_v2 is None, raw_html is None)
\*   failure      return a result without success
\*   exception    raise an Exception with a message
\*   timeout      raise one without (asyncio.TimeoutError())
\*   cancelled    raise a BaseException that is not an Exception
\*                (asyncio.CancelledError)
RenderOutcomes == {"success", "success_bad", "failure", "exception", "timeout", "cancelled"}

Terminal == {"completed", "failed"}

HTTP_200 == 200
HTTP_400 == 400
HTTP_404 == 404

\* mutant: an id generator that hands out the previous id again
NewTaskIdStale == IF uuid_calls = 0 THEN 1 ELSE uuid_calls

\* uuid.uuid4(): a value that no earlier call returned
NewTaskId == uuid_calls + 1

\* mutant: a task that is created already running
PendingRecordRunning == [status |-> "running", result |-> None]

PendingRecord == [status |-> "pending", result |-> None]

CompletedRecord(url) == [status |-> "completed", result |-> [url |-> url]]

\* mutant: a failed record shaped like the pending one, the message dropped
FailedRecordNoError(msg) == [status |-> "failed", result |-> None]

FailedRecord(msg) == [status |-> "failed", error |-> msg]

\* mutant: the store replaces every record of the table
StoreTaskAll(t, id, rec) == [j \in DOMAIN t \cup {id} |-> rec]

\* tasks[task_id] = record
StoreTask(t, id, rec) == [j \in DOMAIN t \cup {id} |-> IF j = id THEN rec ELSE t[j]]

\* request.urls if isinstance(request.urls, str) else request.urls[0]
UrlRaises(r) == ~r.urls.is_str /\ Len(r.urls.items) = 0
\* mutant: the last url of the list is taken
UrlOfLast(r) == r.urls.items[Len(r.urls.items)]

UrlOf(r) == r.urls.items[1]

\* "except Exception" does not catch the outcome: it leaves process_crawl through
\* "async with", and no branch of the try block stores a record
Escapes(outcome) == outcome = "cancelled"

\* the record process_crawl stores for an outcome of crawler.arun that the try
\* block handles
OutcomeRecord(r, outcome) ==
    CASE outcome = "success" -> CompletedRecord(UrlOf(r))
      [] outcome = "failure" -> FailedRecord("error_message")
      [] outcome \in {"exception", "success_bad"} -> FailedRecord("str(e)")
      [] OTHER -> FailedRecord("")

(***************************************************************************)
(* asyncio.Semaphore, as task_semaphore uses it                            *)
(***************************************************************************)
RemoveFirst(s, x) ==
    LET idx == {k \in 1..Len(s) : s[k] = x}
        k == CHOOSE m \in idx : \A n \in idx : m <= n
    IN IF idx = {} THEN s ELSE SubSeq(s, 1, k - 1) \o SubSeq(s, k + 1, Len(s))

\* mutant: the counter is compared with the wrong bound and waiters are ignored
LockedOffByOne(v, w) == v < 0

\* locked(): value is 0, or a waiter has not yet taken its turn
Locked(v, w) == v = 0 \/ Len(w) > 0

\* mutant: the waiter is woken but the slot is not taken for it
WakeUpNextNoTake(v, w, p, rq) ==
    LET idx == {k \in 1..Len(w) : p[w[k]] = "waiting"}
        k == CHOOSE m \in idx : \A n \in idx : m <= n
    IN IF idx = {}
       THEN [value |-> v, pc |-> p, ready |-> rq]
       ELSE [value |-> v, pc |-> [p EXCEPT ![w[k]] = "woken"], ready |-> Append(rq, w[k])]

\* mutant: the slot goes to the waiter that came last
WakeUpNextLast(v, w, p, rq) ==
    LET idx == {k \in 1..Len(w) : p[w[k]] = "waiting"}
        k == CHOOSE m \in idx : \A n \in idx : m >= n
    IN IF idx = {}
       THEN [value |-> v, pc |-> p, ready |-> rq]
       ELSE [value |-> v - 1, pc |-> [p EXCEPT ![w[k]] = "woken"], ready |-> Append(rq, w[k])]

\* _wake_up_next(): hand the slot to the first waiter whose future is not done
WakeUpNext(v, w, p, rq) ==
    LET idx == {k \in 1..Len(w) : p[w[k]] = "waiting"}
        k == CHOOSE m \in idx : \A n \in idx : m <= n
    IN IF idx = {}
       THEN [value |-> v, pc |-> p, ready |-> rq]
       ELSE [value |-> v - 1, pc |-> [p EXCEPT ![w[k]] = "woken"], ready |-> Append(rq, w[k])]

\* release(): leaving "async with task_semaphore"
Release(v, w, p, rq) == WakeUpNext(v + 1, w, p, rq)

\* tasks with a slot: inside the "async with" body (a woken waiter holds the slot handed to it)
Holders == {id \in TaskIds : pc[id] \in {"woken", "rendering"}}
Rendering == {id \in TaskIds : pc[id] = "rendering"}

\* the session_id of a task's crawler.arun(url=url, config=config,
\* browser_config=browser_config): the argument is not passed
ArunSessionId(id) == None

(***************************************************************************)
(* server.py: operations                                                   *)
(***************************************************************************)
\* what the last operation was and what it answered (HTTP status and body for the
\* two handlers; for a process_crawl step, what ended its try block, if anything)
Answer(op, id, code, body, llm, outcome) ==
    [op |-> op, id |-> id, code |-> code, body |-> body, llm |-> llm, outcome |-> outcome]

\* mutant: the feature check is gone
RejectedNever(r) == FALSE

\* if request.use_llm: raise HTTPException(400)
Rejected(r) == r.use_llm

\* mutant: finished tasks are reported as unknown
NotFoundEvicted(t, id) == id \notin DOMAIN t \/ t[id].status \in {"completed", "failed"}

\* if task_id not in tasks: raise HTTPException(404)
NotFound(t, id) == id \notin DOMAIN t

\* POST /crawl: the body of crawl()
CrawlBody(r) ==
    IF Rejected(r)
    THEN /\ last' = Answer("crawl", 0, HTTP_400, None, r.use_llm, "none")
         /\ UNCHANGED <<tasks, sem_value, sem_waiters, pc, req, ready, uuid_calls, returned, cp, pt, sm>>
    ELSE /\ uuid_calls < MaxTasks
         /\ LET task_id == NewTaskId IN
            /\ tasks' = StoreTask(tasks, task_id, PendingRecord)
            /\ pc' = [pc EXCEPT ![task_id] = "new"]
            /\ req' = [req EXCEPT ![task_id] = r]
            /\ ready' = Append(ready, task_id)
            /\ returned' = Append(returned, task_id)
            /\ last' = Answer("crawl", task_id, HTTP_200, None, r.use_llm, "none")
         /\ uuid_calls' = uuid_calls + 1
         /\ UNCHANGED <<sem_value, sem_waiters, cp, pt, sm>>

\* GET /task/{task_id}: the body of get_task_status()
GetTaskStatusBody(id) ==
    /\ last' = IF NotFound(tasks, id)
               THEN Answer("status", id, HTTP_404, None, FALSE, "none")
               ELSE Answer("status", id, HTTP_200, tasks[id], FALSE, "none")
    /\ UNCHANGED <<tasks, sem_value, sem_waiters, pc, req, ready, uuid_calls, returned, cp, pt, sm>>

\* The handlers never read their token argument, so a request that carries any
\* bearer credentials runs the body whatever verify_token returned: Crawl and
\* GetTaskStatus are the two requests with the credentials left out of the state
\* (their dependencies change no state of the server).  Authenticate, AuthCrawl
\* and AuthGetTaskStatus below are the same requests with them.
Crawl(r) == CrawlBody(r) /\ UNCHANGED auth

GetTaskStatus(id) == GetTaskStatusBody(id) /\ UNCHANGED auth

\* API_TOKEN = os.getenv("CRAWL4AI_API_TOKEN"): unset or empty (""), or a secret
ApiTokens == {"", "secret"}

\* the Authorization header of a request: none, or "Bearer <credentials>"
NoHeader == "(no Authorization header)"
RequestCredentials == {NoHeader, "secret", "wrong"}

HTTP_403 == 403

\* verify_token(credentials)
VerifyToken(api_token, credentials) ==
    IF api_token = "" THEN TRUE ELSE credentials = api_token

\* security = HTTPBearer(): a request without bearer credentials is answered
\* "Not authenticated" before verify_token and the handler run
Unauthenticated(credentials) == credentials = NoHeader

\* a request whose dependencies are solved and whose handler has not run yet
InFlight(op, r, id, credentials, token) ==
    [op |-> op, r |-> r, id |-> id, credentials |-> credentials, token |-> token]

\* The dependencies of a request: security = HTTPBearer(), then verify_token.
\* verify_token is a plain def, which FastAPI runs in its thread pool and awaits:
\* the event loop runs whatever is ready before it calls the handler with the value.
Authenticate(op, r, id, credentials) ==
    IF Unauthenticated(credentials)
    THEN /\ auth' = [auth EXCEPT !.credentials = credentials, !.token = FALSE]
         /\ last' = Answer(op, 0, HTTP_403, None, FALSE, "none")
         /\ UNCHANGED <<tasks, sem_value, sem_waiters, pc, req, ready, uuid_calls, returned, cp, pt, sm>>
    ELSE /\ Len(auth.pending) < MaxInFlight
         /\ auth' = [auth EXCEPT !.pending =
                         Append(@, InFlight(op, r, id, credentials,
                                            VerifyToken(auth.api_token, credentials)))]
         /\ UNCHANGED <<serverVars, cp, pt, sm>>

\* the handler of the k-th request in flight is called with token = its value
Handled(k) ==
    [auth EXCEPT !.pending = SubSeq(@, 1, k - 1) \o SubSeq(@, k + 1, Len(@)),
                 !.credentials = auth.pending[k].credentials,
                 !.token = auth.pending[k].token]

\* POST /crawl after its dependency token = Depends(verify_token): the body
AuthCrawl(k) ==
    /\ k \in 1..Len(auth.pending)
    /\ auth.pending[k].op = "crawl"
    /\ CrawlBody(auth.pending[k].r)
    /\ auth' = Handled(k)

\* GET /task/{task_id} after its dependency: the body
AuthGetTaskStatus(k) ==
    /\ k \in 1..Len(auth.pending)
    /\ auth.pending[k].op = "status"
    /\ GetTaskStatusBody(auth.pending[k].id)
    /\ auth' = Handled(k)

\* process_crawl from the first line of the "async with" body to its first
\* suspension (await crawler.arun) or, when request.urls[0] raises, to the end
EnterBody(id, v, w, p, rq) ==
    IF UrlRaises(req[id])
    THEN LET r == Release(v, w, [p EXCEPT ![id] = "done"], rq) IN
         /\ tasks' = StoreTask(tasks, id, FailedRecord("list index out of range"))
         /\ sem_value' = r.value
         /\ sem_waiters' = w
         /\ pc' = r.pc
         /\ ready' = r.ready
    ELSE /\ sem_value' = v
         /\ sem_waiters' = w
         /\ pc' = [p EXCEPT ![id] = "rendering"]
         /\ ready' = rq
         /\ UNCHANGED tasks

\* the event loop runs the coroutine at the head of its ready queue:
\* a new process_crawl calls acquire(); a woken waiter returns from acquire()
RunReady ==
    /\ Len(ready) > 0
    /\ LET id == Head(ready)
           rq == Tail(ready)
       IN /\ IF pc[id] = "new"
             THEN IF ~Locked(sem_value, sem_waiters)
                  THEN EnterBody(id, sem_value - 1, sem_waiters, pc, rq)
                  ELSE /\ sem_waiters' = Append(sem_waiters, id)
                       /\ pc' = [pc EXCEPT ![id] = "waiting"]
                       /\ ready' = rq
                       /\ UNCHANGED <<tasks, sem_value>>
             ELSE LET w == RemoveFirst(sem_waiters, id)
                      a == IF sem_value > 0
                           THEN WakeUpNext(sem_value, w, pc, rq)
                           ELSE [value |-> sem_value, pc |-> pc, ready |-> rq]
                  IN EnterBody(id, a.value, w, a.pc, a.ready)
          /\ last' = Answer("process_crawl", id, 0, None, FALSE,
                            IF pc'[id] = "done" THEN "raised" ELSE "none")
    /\ UNCHANGED <<req, uuid_calls, returned, cp, auth, pt, sm>>

\* crawler.arun returns or raises: process_crawl stores the outcome, unless the
\* exception escapes the try block, and leaves the "async with" block
RenderDone(id, outcome) ==
    /\ pc[id] = "rendering"
    /\ LET r == Release(sem_value, sem_waiters, [pc EXCEPT ![id] = "done"], ready) IN
       /\ tasks' = IF Escapes(outcome)
                   THEN tasks
                   ELSE StoreTask(tasks, id, OutcomeRecord(req[id], outcome))
       /\ sem_value' = r.value
       /\ pc' = r.pc
       /\ ready' = r.ready
    /\ last' = Answer("process_crawl", id, 0, None, FALSE, outcome)
    /\ UNCHANGED <<sem_waiters, req, uuid_calls, returned, cp, auth, pt, sm>>

ServerInit ==
    /\ tasks = <<>>
    /\ sem_value = MAX_CONCURRENT_TASKS
    /\ sem_waiters = <<>>
    /\ pc = [id \in TaskIds |-> "none"]
    /\ req = [id \in TaskIds |-> NoRequest]
    /\ ready = <<>>
    /\ uuid_calls = 0
    /\ returned = <<>>
    /\ last = Answer("start", 0, 0, None, FALSE, "none")

CpIdle == [phase |-> "idle"]

\* no request seen yet; API_TOKEN as configured
NoAuth(api_token) ==
    [api_token |-> api_token, pending |-> <<>>, credentials |-> NoHeader, token |-> FALSE]

PtIdle == [phase |-> "idle"]

SmIdle == [phase |-> "idle"]

Init == ServerInit /\ cp = CpIdle /\ auth = NoAuth("") /\ pt = PtIdle /\ sm = SmIdle

Next ==
    \/ \E r \in CrawlRequest : Crawl(r)
    \/ \E id \in QueryIds : GetTaskStatus(id)
    \/ RunReady
    \/ \E id \in TaskIds, o \in RenderOutcomes : RenderDone(id, o)

Spec == Init /\ [][Next]_vars

\* the submissions sent with credentials
AuthRequest == [urls : {UrlStr("a")}, use_llm : {FALSE}]

\* the ids asked about with credentials: one that uuid4 never produces, and the
\* id of the first task
AuthQueryIds == {0, 1}

\* the server with API_TOKEN unset or set, and requests with their credentials
InitAuth ==
    /\ ServerInit
    /\ cp = CpIdle /\ pt = PtIdle /\ sm = SmIdle
    /\ \E t \in ApiTokens : auth = NoAuth(t)

NextAuth ==
    \/ \E c \in RequestCredentials, r \in AuthRequest : Authenticate("crawl", r, 0, c)
    \/ \E c \in RequestCredentials, id \in AuthQueryIds : Authenticate("status", NoRequest, id, c)
    \/ \E k \in 1..MaxInFlight : AuthCrawl(k)
    \/ \E k \in 1..MaxInFlight : AuthGetTaskStatus(k)
    \/ RunReady
    \/ \E id \in TaskIds, o \in RenderOutcomes : RenderDone(id, o)

SpecAuth == InitAuth /\ [][NextAuth]_vars

\* priority: int = Field(default=1, ge=1, le=10): the lowest and the highest
Priorities == {1, 10}

\* requests that differ in their priority only
PriorityRequest == [urls : {UrlStr("a")}, use_llm : {FALSE}, priority : Priorities]

\* the server started with MAX_CONCURRENT_TASKS=1 in its environment, so that
\* several tasks wait for the one slot
InitPriority ==
    /\ tasks = <<>>
    /\ sem_value = 1
    /\ sem_waiters = <<>>
    /\ pc = [id \in TaskIds |-> "none"]
    /\ req = [id \in TaskIds |-> NoRequest]
    /\ ready = <<>>
    /\ uuid_calls = 0
    /\ returned = <<>>
    /\ last = Answer("start", 0, 0, None, FALSE, "none")
    /\ cp = CpIdle /\ auth = NoAuth("") /\ pt = PtIdle /\ sm = SmIdle

NextPriority ==
    \/ \E r \in PriorityRequest : Crawl(r)
    \/ \E id \in QueryIds : GetTaskStatus(id)
    \/ RunReady
    \/ \E id \in TaskIds, o \in RenderOutcomes : RenderDone(id, o)

SpecPriority == InitPriority /\ [][NextPriority]_vars

\* GET /health
HealthCheck ==
    /\ last' = Answer("health", 0, HTTP_200,
                      [status |-> "healthy",
                       max_concurrent_tasks |-> MAX_CONCURRENT_TASKS,
                       active_tasks |-> Cardinality(DOMAIN tasks),
                       llm_enabled |-> FALSE],
                      FALSE, "none")
    /\ UNCHANGED <<tasks, sem_value, sem_waiters, pc, req, ready, uuid_calls, returned,
                   cp, auth, pt, sm>>

\* the server with its health operation
NextHealth ==
    \/ \E r \in CrawlRequest : Crawl(r)
    \/ \E id \in QueryIds : GetTaskStatus(id)
    \/ RunReady
    \/ \E id \in TaskIds, o \in RenderOutcomes : RenderDone(id, o)
    \/ HealthCheck

SpecHealth == Init /\ [][NextHealth]_vars

\* the event loop runs every ready callback, and every render call returns or raises
FairSpec ==
    /\ Spec
    /\ WF_vars(RunReady)
    /\ \A id \in TaskIds : WF_vars(\E o \in RenderOutcomes : RenderDone(id, o))

(***************************************************************************)
(* crawl_site.py: values                                                   *)
(***************************************************************************)
UrlNames == {"a", "b"}

\* what one crawler.arun of a batch can settle to, as asyncio.gather with
\* return_exceptions=True reports it:
\*   ok           a result with success, from which result_dict is built
\*   ok_bad       a result with success whose fields make building result_dict raise
\*   not_success  a result without success
\*   exc_timeout  an exception whose text is "Timeout"
\*   exc_other    an exception whose text is "net"
\*   cancelled    asyncio.CancelledError, which gather reports for an arun that was
\*                cancelled: a BaseException that is not an Exception and has no
\*                attribute success (an arun that returns None takes the same
\*                path through the loop)
BatchOutcomes == {"ok", "ok_bad", "not_success", "exc_timeout", "exc_other", "cancelled"}

\* isinstance(result, Exception)
IsException(o) == o \in {"exc_timeout", "exc_other"}

\* result.success raises AttributeError, outside the loop's try block
NoSuccessAttribute(o) == o = "cancelled"

\* str(result) of an exception, one character per element
ExceptionText(o) ==
    IF o = "exc_timeout" THEN <<"T", "i", "m", "e", "o", "u", "t">> ELSE <<"n", "e", "t">>

\* str.lower() on the characters that occur
LowerChar(c) == IF c = "T" THEN "t" ELSE c

Lower(s) == [k \in 1..Len(s) |-> LowerChar(s[k])]

\* sub in s
Contains(sub, s) ==
    \E k \in 0..(Len(s) - Len(sub)) : \A m \in 1..Len(sub) : s[k + m] = sub[m]

\* the counter of stats that the loop over zip(batch, results) increments
\* ("none": the loop raises before it increments one)
Classify(o) ==
    IF IsException(o)
    THEN IF Contains(<<"t", "i", "m", "e", "o", "u", "t">>, Lower(ExceptionText(o)))
         THEN "timeout"
         ELSE "error"
    ELSE IF NoSuccessAttribute(o)
         THEN "none"
         ELSE IF o \in {"ok", "ok_bad"}
              THEN IF o = "ok" THEN "success" ELSE "error"
              ELSE "failed"

\* result_dict of a url crawled with success
ResultDict(url) ==
    [url |-> url, raw_markdown |-> "raw", fit_markdown |-> "fit", title |-> "title",
     date |-> "date", categories |-> <<>>, tags |-> <<>>, word_count |-> 1]

\* result.get(key, default)
Get(result, key, default) == IF key \in DOMAIN result THEN result[key] ELSE default

\* the content record save_batch_results writes for a result
Content(result, ts) ==
    [url |-> result.url,
     timestamp |-> ts,
     content |-> [title |-> Get(result, "title", ""),
                  raw_markdown |-> Get(result, "raw_markdown", ""),
                  fit_markdown |-> Get(result, "fit_markdown", ""),
                  summary |-> Get(result, "summary", ""),
                  references |-> Get(result, "references", <<>>)],
     metadata |-> [date |-> Get(result, "date", ""),
                   author |-> Get(result, "author", ""),
                   categories |-> Get(result, "categories", <<>>),
                   tags |-> Get(result, "tags", <<>>),
                   word_count |-> Get(result, "word_count", 0),
                   relevance_score |-> Get(result, "relevance_score", 0)],
     links |-> Get(result, "links", <<>>)]

\* the entry save_batch_results writes to errors.jsonl for a result with an "error" key
ErrorEntry(result, ts) == [url |-> result.url, timestamp |-> ts, error |-> result.error]

\* A JSON object is the sequence of its members <<key, value>> in the order
\* json.dumps writes them, which is the insertion order of the dict.
DumpsObject(d, keys) == [k \in 1..Len(keys) |-> <<keys[k], d[keys[k]]>>]

\* json.loads of an object: a dict of its keys, a repeated key keeping its last value
LoadsObject(members) ==
    [key \in {members[k][1] : k \in 1..Len(members)} |->
        LET pos == CHOOSE k \in 1..Len(members) :
                        /\ members[k][1] = key
                        /\ \A m \in (k + 1)..Len(members) : members[m][1] # key
        IN members[pos][2]]

ContentKeys == <<"title", "raw_markdown", "fit_markdown", "summary", "references">>
MetadataKeys == <<"date", "author", "categories", "tags", "word_count", "relevance_score">>
RecordKeys == <<"url", "timestamp", "content", "metadata", "links">>
ErrorKeys == <<"url", "timestamp", "error">>

\* mutant: the record is written without its metadata
DumpsNoMetadata(content) ==
    DumpsObject([content EXCEPT !.content = DumpsObject(@, ContentKeys),
                                !.links = DumpsObject(@, <<>>)],
                <<"url", "timestamp", "content", "links">>)

\* json.dumps(content, ensure_ascii=False) of a content record
Dumps(content) ==
    DumpsObject([content EXCEPT !.content = DumpsObject(@, ContentKeys),
                                !.metadata = DumpsObject(@, MetadataKeys),
                                !.links = DumpsObject(@, <<>>)],
                RecordKeys)

\* json.loads of a line of results.jsonl
Loads(line) ==
    LET top == LoadsObject(line)
    IN [key \in DOMAIN top |->
           IF key \in {"content", "metadata", "links"} THEN LoadsObject(top[key]) ELSE top[key]]

\* json.dumps(error_entry, ensure_ascii=False)
DumpsError(error_entry) == DumpsObject(error_entry, ErrorKeys)

\* mutant: the file is opened with "w"
WriteLineTruncating(file, line) == <<line>>

\* mutant: the line is written at the start of the file
WriteLineAtStart(file, line) == <<line>> \o file

\* with open(file, "a") as f: f.write(line + "\n")
WriteLine(file, line) == Append(file, line)

\* save_batch_results(results, output_dir) from record k on, when the next f calls
\* of open() succeed and the one after them raises (f at least the number of
\* calls left: none raises); clock counts the datetime.now() calls.  The content
\* of a record is built, with its timestamp, before results.jsonl is opened; the
\* entry for errors.jsonl is built after that file is opened.
RECURSIVE SaveBatchResults(_, _, _, _)
SaveBatchResults(st, results, f, k) ==
    IF k > Len(results)
    THEN st
    ELSE LET result == results[k]
             content == Content(result, st.clock + 1)
             s0 == [st EXCEPT !.clock = @ + 1]
             s1 == [s0 EXCEPT !.results_file = WriteLine(@, Dumps(content))]
             s2 == [s1 EXCEPT !.errors_file =
                                  WriteLine(@, DumpsError(ErrorEntry(result, s1.clock + 1))),
                              !.clock = @ + 1]
         IN IF f = 0
            THEN [s0 EXCEPT !.ok = FALSE]
            ELSE IF "error" \notin DOMAIN result
                 THEN SaveBatchResults(s1, results, f - 1, k + 1)
                 ELSE IF f = 1
                      THEN [s1 EXCEPT !.ok = FALSE]
                      ELSE SaveBatchResults(s2, results, f - 2, k + 1)

Min(a, b) == IF a < b THEN a ELSE b

\* mutant: the slice loses its last url
BatchPositionsShort(i, k, n) == (i + 1)..Min(i + k - 1, n)

\* the positions (1-based) of batch = urls[i:i + max_concurrent]
BatchPositions(i, k, n) == (i + 1)..Min(i + k, n)

\* the positions of a set in increasing order
RECURSIVE Ascending(_)
Ascending(S) ==
    IF S = {} THEN <<>>
    ELSE LET m == CHOOSE x \in S : \A y \in S : x <= y IN <<m>> \o Ascending(S \ {m})

\* the positions the loop over zip(batch, results) gets through: all of them, or
\* those before the first result whose result.success raises
RECURSIVE Processed(_, _)
Processed(order, ops) ==
    IF order = <<>> \/ NoSuccessAttribute(ops[Head(order)])
    THEN <<>>
    ELSE <<Head(order)>> \o Processed(Tail(order), ops)

\* stats after the loop over zip(batch, results)
RECURSIVE Tally(_, _, _)
Tally(stats, order, ops) ==
    IF order = <<>> THEN stats
    ELSE Tally([stats EXCEPT ![Classify(ops[Head(order)])] = @ + 1], Tail(order), ops)

\* batch_results after the loop over zip(batch, results)
RECURSIVE BatchResults(_, _, _)
BatchResults(order, ops, urls) ==
    IF order = <<>> THEN <<>>
    ELSE (IF Classify(ops[Head(order)]) = "success" THEN <<ResultDict(urls[Head(order)])>> ELSE <<>>)
         \o BatchResults(Tail(order), ops, urls)

(***************************************************************************)
(* crawl_site.py: crawl_parallel                                           *)
(***************************************************************************)
\* the url lists of a run: up to MaxUrls urls, repetitions included; the names are
\* interchangeable, so a list that is not empty starts with "a"; the second and
\* the third url are free, and from the fourth on a url is the one two places
\* before it
UrlLists ==
    UNION {{urls \in [1..n -> UrlNames] :
               /\ n > 0 => urls[1] = "a"
               /\ \A k \in 4..n : urls[k] = urls[k - 2]}
             : n \in 0..MaxUrls}

\* crawl_parallel(urls, output_dir, max_concurrent) up to the for loop
CrawlParallel(urls, max_concurrent) ==
    [phase |-> "loop",
     urls |-> urls,
     max_concurrent |-> max_concurrent,
     i |-> 0,
     ops |-> <<>>,
     session |-> <<>>,
     stats |-> [success |-> 0, failed |-> 0, timeout |-> 0, error |-> 0],
     results_file |-> <<>>,
     errors_file |-> <<>>,
     clock |-> 0,
     ok |-> TRUE,
     raised |-> "",
     \* history, not program state: batches started, their sizes, the outcome of
     \* every url, how many times a counter was incremented for it and which one
     sizes |-> <<>>,
     hist |-> [k \in 1..Len(urls) |-> "none"],
     counted |-> [k \in 1..Len(urls) |-> 0],
     cls |-> [k \in 1..Len(urls) |-> "none"]]

\* one pass of the for loop up to "await asyncio.gather": the batch's arun calls
LaunchBatch ==
    /\ cp.phase = "loop"
    /\ cp.i < Len(cp.urls)
    /\ LET batch == BatchPositions(cp.i, cp.max_concurrent, Len(cp.urls)) IN
       cp' = [cp EXCEPT !.phase = "gather",
                        !.ops = [k \in batch |-> "running"],
                        !.session = [k \in batch |-> k - 1],
                        !.sizes = Append(@, Cardinality(batch))]
    /\ UNCHANGED <<serverVars, auth, pt, sm>>

\* one arun of the batch returns or raises
Settle(k, o) ==
    /\ cp.phase = "gather"
    /\ k \in DOMAIN cp.ops
    /\ cp.ops[k] = "running"
    /\ cp' = [cp EXCEPT !.ops[k] = o, !.hist[k] = o]
    /\ UNCHANGED <<serverVars, auth, pt, sm>>

\* gather returns once every arun has settled; the loop over zip(batch, results),
\* save_batch_results and the call of asyncio.sleep follow without suspension.
\* An exception raised in the loop or by a write leaves crawl_parallel through
\* its finally clause.
ProcessBatch(f) ==
    /\ cp.phase = "gather"
    /\ \A k \in DOMAIN cp.ops : cp.ops[k] # "running"
    /\ LET all == Ascending(DOMAIN cp.ops)
           order == Processed(all, cp.ops)
           loop_raises == Len(order) < Len(all)
           batch_results == BatchResults(order, cp.ops, cp.urls)
           stats == Tally(cp.stats, order, cp.ops)
           counted == [k \in DOMAIN cp.counted |->
                          cp.counted[k] + Cardinality({m \in 1..Len(order) : order[m] = k})]
           zero == [success |-> 0, failed |-> 0, timeout |-> 0, error |-> 0]
           cls == [k \in DOMAIN cp.cls |->
                      IF \E m \in 1..Len(order) : order[m] = k
                      THEN CHOOSE c \in DOMAIN zero : Tally(zero, <<k>>, cp.ops)[c] = 1
                      ELSE cp.cls[k]]
           files == [results_file |-> cp.results_file, errors_file |-> cp.errors_file,
                     clock |-> cp.clock, ok |-> TRUE]
           saved == IF batch_results # <<>> /\ ~loop_raises
                    THEN SaveBatchResults(files, batch_results, f, 1)
                    ELSE files
       IN /\ f \in 0..Len(batch_results)
          /\ loop_raises => f = 0
          /\ cp' = [cp EXCEPT !.phase = IF saved.ok /\ ~loop_raises THEN "sleep" ELSE "aborted",
                              !.raised = IF loop_raises THEN "AttributeError"
                                         ELSE IF saved.ok THEN "" ELSE "OSError",
                              !.stats = stats,
                              !.counted = counted,
                              !.cls = cls,
                              !.ops = <<>>,
                              !.session = <<>>,
                              !.results_file = saved.results_file,
                              !.errors_file = saved.errors_file,
                              !.clock = saved.clock,
                              !.ok = saved.ok]
    /\ UNCHANGED <<serverVars, auth, pt, sm>>

\* asyncio.sleep(1) is over: the for loop steps to the next batch
NextBatch ==
    /\ cp.phase = "sleep"
    /\ cp' = [cp EXCEPT !.phase = "loop", !.i = @ + cp.max_concurrent]
    /\ UNCHANGED <<serverVars, auth, pt, sm>>

\* the for loop is exhausted: crawler.close() and return stats
ReturnStats ==
    /\ cp.phase = "loop"
    /\ cp.i >= Len(cp.urls)
    /\ cp' = [cp EXCEPT !.phase = "returned"]
    /\ UNCHANGED <<serverVars, auth, pt, sm>>

InitBatch ==
    /\ ServerInit
    /\ auth = NoAuth("") /\ pt = PtIdle /\ sm = SmIdle
    /\ \E urls \in UrlLists, k \in 1..MaxBatch : cp = CrawlParallel(urls, k)

NextOfBatch ==
    \/ LaunchBatch
    \/ \E k \in 1..MaxUrls, o \in BatchOutcomes : Settle(k, o)
    \/ \E f \in 0..MaxBatch : ProcessBatch(f)
    \/ NextBatch
    \/ ReturnStats

SpecBatch == InitBatch /\ [][NextOfBatch]_vars

(***************************************************************************)
(* The page timeout of one request: CrawlRequest.page_timeout, process_crawl *)
(***************************************************************************)
MaxTimeoutSteps == 124

PAGE_TIMEOUT_DEFAULT == 30000
PAGE_TIMEOUT_GE == 1000
PAGE_TIMEOUT_LE == 60000
PAGE_TIMEOUT_CAP == 30000
HTTP_422 == 422

\* the page_timeout field of a request body: left out, or an integer
LeftOut == [given |-> FALSE, value |-> 0]
Given(n) == [given |-> TRUE, value |-> n]
PageTimeouts ==
    {LeftOut} \cup {Given(500 * k + d) : k \in 0..MaxTimeoutSteps, d \in {-1, 0, 1}}

\* Field(default=30000, ...)
FieldValue(p) == IF p.given THEN p.value ELSE PAGE_TIMEOUT_DEFAULT

\* Field(..., ge=1000, le=60000): the request model validates or the request is refused
Validates(p) == PAGE_TIMEOUT_GE <= FieldValue(p) /\ FieldValue(p) <= PAGE_TIMEOUT_LE

\* mutant: the field's value goes to the renderer as it is
PageTimeoutUncapped(n) == n

\* page_timeout = min(request.page_timeout, 30000)
PageTimeout(n) == Min(n, PAGE_TIMEOUT_CAP)

\* POST /crawl builds request: CrawlRequest from the body
ParseRequest(p) ==
    /\ pt.phase = "idle"
    /\ pt' = IF Validates(p)
             THEN [phase |-> "accepted", requested |-> p, page_timeout |-> FieldValue(p)]
             ELSE [phase |-> "rejected", requested |-> p, code |-> HTTP_422]
    /\ UNCHANGED <<serverVars, cp, auth, sm>>

\* process_crawl builds CrawlerRunConfig(page_timeout=page_timeout, ...)
RunConfig ==
    /\ pt.phase = "accepted"
    /\ pt' = [phase |-> "handed", requested |-> pt.requested,
              page_timeout |-> pt.page_timeout,
              handed |-> PageTimeout(pt.page_timeout)]
    /\ UNCHANGED <<serverVars, cp, auth, sm>>

InitTimeout ==
    /\ ServerInit
    /\ cp = CpIdle /\ auth = NoAuth("") /\ sm = SmIdle
    /\ pt = PtIdle

NextTimeout ==
    \/ \E p \in PageTimeouts : ParseRequest(p)
    \/ RunConfig

SpecTimeout == InitTimeout /\ [][NextTimeout]_vars

(***************************************************************************)
(* Sitemap discovery: get_sitemap_urls and main (crawl_site.py)            *)
(***************************************************************************)
MaxLocs == 3

sitemap_locations ==
    <<"/sitemap.xml", "/sitemap_index.xml", "/sitemap/sitemap.xml", "/wp-sitemap.xml">>

\* The text of a <loc> element, as a sequence of characters; an empty element has
\* the text None, which is <<>> here: both are falsy and neither ends with anything.
LocTexts ==
    << <<>>, <<"a">>, <<"b">>, <<"c">>, <<"d">>, <<"e">>,
       <<"s", ".", "x", "m", "l">>, <<"t", ".", "x", "m", "l">> >>

XmlSuffix == <<".", "x", "m", "l">>

\* str.endswith
EndsWith(text, suffix) ==
    /\ Len(text) >= Len(suffix)
    /\ SubSeq(text, Len(text) - Len(suffix) + 1, Len(text)) = suffix

\* loc.text and loc.text.endswith('.xml')
IsSubSitemap(text) == text # <<>> /\ EndsWith(text, XmlSuffix)

\* A sitemap document is the sequence of its <loc> texts in document order; the
\* documents here list up to MaxLocs different LocTexts in the order of LocTexts,
\* or one of them twice.
DocIndexes ==
    UNION {{f \in [1..n -> 1..Len(LocTexts)] :
               \/ \A i \in 1..(n - 1) : f[i] < f[i + 1]
               \/ n = 2 /\ f[1] = f[2]}
             : n \in 0..MaxLocs}
Documents == {[i \in DOMAIN f |-> LocTexts[f[i]]] : f \in DocIndexes}

\* What a GET of a sitemap url comes to: requests.get raises, raise_for_status
\* raises, ElementTree.fromstring raises, or root.findall('.//ns:loc') has the locs.
Errors == {"ConnectionError", "HTTPError", "ParseError"}
Failure(e) == [ok |-> FALSE, error |-> e]
Parsed(locs) == [ok |-> TRUE, locs |-> locs]
Responses == {Failure(e) : e \in Errors} \cup {Parsed(d) : d \in Documents}
NoResponse == Failure("none")

\* mutant: only the errors of requests are caught
CaughtRequestsOnly(e) == e \in {"ConnectionError", "HTTPError"}

\* except Exception
Caught(e) == e \in Errors

LocSet(locs) == {locs[i] : i \in DOMAIN locs}

\* mutant: a file is an index only when all of its locs end in .xml
IsIndexAll(locs) == locs # <<>> /\ \A i \in DOMAIN locs : IsSubSitemap(locs[i])

\* any(loc.text and loc.text.endswith('.xml') for loc in sitemaps)
IsIndex(locs) == \E i \in DOMAIN locs : IsSubSitemap(locs[i])

\* for sitemap in sitemaps: if sitemap.text and sitemap.text.endswith('.xml')
SubSitemaps(locs) == SelectSeq(locs, IsSubSitemap)

\* mutant: a document's locs replace what was collected
UpdateReplacing(urls, locs) == LocSet(locs)

\* mutant: locs without text are skipped
UpdateTruthy(urls, locs) == urls \cup {t \in LocSet(locs) : t # <<>>}

\* urls.update(loc.text for loc in ...)
Update(urls, locs) == urls \cup LocSet(locs)

\* mutant: the loop never stops early
BreakNever(urls) == FALSE

\* if urls: ... break
Break(urls) == urls # {}

\* return list(urls), after the break or after the last candidate
Return(s, winner) ==
    [s EXCEPT !.phase = "returned", !.winner = winner]

\* the for loop moves on: the next candidate, or the end of the list
Continue(s) ==
    IF s.c = Len(sitemap_locations)
    THEN Return(s, 0)
    ELSE [s EXCEPT !.phase = "loop", !.c = s.c + 1, !.top = <<>>, !.subs = <<>>]

\* the end of the try body
EndCandidate(s) == IF Break(s.urls) THEN Return(s, s.c) ELSE Continue(s)

\* an exception that no handler catches leaves get_sitemap_urls
Raise(s) == [s EXCEPT !.phase = "raised"]

\* main has called get_sitemap_urls(base_url): urls = set(), the loop is at its start
GetSitemapUrls ==
    [phase |-> "loop", c |-> 1, tried |-> <<>>, top |-> <<>>, subs |-> <<>>,
     urls |-> {}, response |-> NoResponse, winner |-> 0,
     output_dir |-> FALSE, crawl |-> FALSE]

\* one pass of the for loop up to its first sub-sitemap request, or to its end
FetchSitemap(resp) ==
    /\ sm.phase = "loop"
    /\ LET s == [sm EXCEPT !.tried = Append(@, sitemap_locations[sm.c]),
                           !.response = resp]
       IN sm' = IF ~resp.ok
                THEN IF Caught(resp.error) THEN Continue(s) ELSE Raise(s)
                ELSE IF IsIndex(resp.locs)
                THEN [s EXCEPT !.phase = "index", !.top = resp.locs,
                               !.subs = SubSitemaps(resp.locs)]
                ELSE EndCandidate([s EXCEPT !.top = resp.locs,
                                            !.urls = Update(@, resp.locs)])
    /\ UNCHANGED <<serverVars, cp, auth, pt>>

\* one pass of the inner loop over an index's sub-sitemaps; after the last one,
\* the end of the try body
FetchSubSitemap(resp) ==
    /\ sm.phase = "index"
    /\ LET s == [sm EXCEPT !.response = resp, !.subs = Tail(@),
                           !.urls = IF resp.ok THEN Update(@, resp.locs) ELSE @]
       IN sm' = IF ~resp.ok /\ ~Caught(resp.error) THEN Raise(s)
                ELSE IF s.subs = <<>> THEN EndCandidate(s)
                ELSE s
    /\ UNCHANGED <<serverVars, cp, auth, pt>>

\* main after get_sitemap_urls has returned: leave, or create the output directory
\* and call crawl_parallel(urls, output_dir, max_concurrent=5)
Main ==
    /\ sm.phase = "returned"
    /\ LET s == [GetSitemapUrls EXCEPT !.c = 0, !.urls = sm.urls, !.tried = sm.tried,
                                        !.response = sm.response]
       IN sm' = IF sm.urls = {}
                THEN [s EXCEPT !.phase = "exit"]
                ELSE [s EXCEPT !.phase = "crawl", !.output_dir = TRUE, !.crawl = TRUE]
    /\ UNCHANGED <<serverVars, cp, auth, pt>>

InitSitemap ==
    /\ ServerInit
    /\ cp = CpIdle /\ auth = NoAuth("") /\ pt = PtIdle
    /\ sm = GetSitemapUrls

NextSitemap ==
    \/ \E resp \in Responses : FetchSitemap(resp)
    \/ \E resp \in Responses : FetchSubSitemap(resp)
    \/ Main

SpecSitemap == InitSitemap /\ [][NextSitemap]_vars

(***************************************************************************)
(* Properties of the server                                                *)
(***************************************************************************)
Range(f) == {f[k] : k \in DOMAIN f}

StatusOf(id) == tasks[id].status

\* result is present: the key is there and its value is not None
HasResult(rec) == "result" \in DOMAIN rec /\ rec.result # None

\* an error message is present: the record has the key (its text is str(e), which
\* is the empty string for an exception raised without arguments)
HasError(rec) == "error" \in DOMAIN rec

\* C1: in every reachable state at most MAX_CONCURRENT_TASKS tasks hold a slot of
\* task_semaphore (are inside the guarded body of process_crawl, rendering or about
\* to), however many submissions were made.
C1_AtMostKExecuting ==
    /\ Cardinality(Holders) <= MAX_CONCURRENT_TASKS
    /\ Cardinality(Rendering) <= MAX_CONCURRENT_TASKS

\* K tasks are rendering while a further submitted task waits for a slot
C1_Witness ==
    /\ Cardinality(Rendering) = MAX_CONCURRENT_TASKS
    /\ \E id \in TaskIds : pc[id] = "waiting"

\* C2: once a task's status is completed or failed, no step of any operation
\* changes its record again.
C2_TerminalAbsorbing ==
    [][\A id \in DOMAIN tasks :
          StatusOf(id) \in Terminal => (id \in DOMAIN tasks' /\ tasks'[id] = tasks[id])]_vars

\* a task is terminal and, after that, another task's worker stored its own outcome
C2_Witness ==
    /\ last.op = "process_crawl"
    /\ last.outcome # "none"
    /\ \E id \in DOMAIN tasks : id < last.id /\ StatusOf(id) \in Terminal /\ StatusOf(last.id) \in Terminal

\* C3 as stated: a task that is executing (rendering) has status running.
C3_RunningWhileExecuting ==
    \A id \in DOMAIN tasks : pc[id] = "rendering" => StatusOf(id) = "running"

\* C3 amended: process_crawl never stores the status running.  A task's status is
\* pending from submission until its worker stores the outcome (while queued,
\* while waiting for a slot and while rendering), and completed or failed from
\* then on: a record changes only from pending to completed or failed, and only
\* in the step that ends its worker.  (A worker that ends without storing
\* leaves the record pending.)
C3_PendingUntilTerminal ==
    /\ [](\A id \in DOMAIN tasks :
             /\ pc[id] \in {"new", "waiting", "woken", "rendering"} => StatusOf(id) = "pending"
             /\ StatusOf(id) \in {"pending"} \cup Terminal
             /\ pc[id] # "none")
    /\ [][\A id \in DOMAIN tasks :
             tasks'[id] # tasks[id] =>
                 /\ StatusOf(id) = "pending"
                 /\ tasks'[id].status \in Terminal
                 /\ pc[id] \in {"new", "woken", "rendering"}
                 /\ pc'[id] = "done"]_vars

\* a status query answered pending for a task that is rendering
C3_Witness ==
    /\ last.op = "status"
    /\ last.code = HTTP_200
    /\ pc[last.id] = "rendering"
    /\ last.body.status = "pending"

\* C4: for every task of the table, a result is present iff status = completed and
\* an error message is present iff status = failed.
C4_ResultIffCompleted ==
    \A id \in DOMAIN tasks :
        /\ HasResult(tasks[id]) <=> StatusOf(id) = "completed"
        /\ HasError(tasks[id]) <=> StatusOf(id) = "failed"

\* the table holds a pending, a completed and a failed task at once
C4_Witness ==
    \E a, b, c \in DOMAIN tasks :
        /\ StatusOf(a) = "pending"
        /\ StatusOf(b) = "completed" /\ HasResult(tasks[b])
        /\ StatusOf(c) = "failed" /\ HasError(tasks[c])

\* C5: a permitted submit is never blocked by running or queued tasks; the id it
\* returns differs from every id returned before, and when it returns the table
\* holds that id with status pending.
C5_SubmitFreshPending ==
    /\ \A i, j \in DOMAIN returned : i # j => returned[i] # returned[j]
    /\ (last.op = "crawl" /\ last.code = HTTP_200) =>
          /\ Len(returned) > 0
          /\ last.id = returned[Len(returned)]
          /\ last.id \in DOMAIN tasks
          /\ tasks[last.id] = PendingRecord
    /\ uuid_calls < MaxTasks =>
          \A r \in CrawlRequest : ~r.use_llm => ENABLED Crawl(r)

\* a submit returned while K tasks were rendering and another was waiting
C5_Witness ==
    /\ last.op = "crawl"
    /\ last.code = HTTP_200
    /\ Len(returned) = MaxTasks
    /\ Cardinality(Rendering) = MAX_CONCURRENT_TASKS

\* C6: a submit that asks for LLM extraction is answered with a client error and
\* changes nothing: no id, no table entry, no background work, no slot.
C6_LlmRejectedNoEffect ==
    [][(last'.op = "crawl" /\ last'.llm) =>
          /\ last'.code = HTTP_400
          /\ UNCHANGED <<tasks, sem_value, sem_waiters, pc, req, ready, uuid_calls, returned>>]_vars

\* an LLM submit was rejected in a system that already holds tasks
C6_Witness ==
    /\ last.op = "crawl"
    /\ last.llm
    /\ last.code = HTTP_400
    /\ uuid_calls > 0

\* C7: a status query fails with NotFound iff its id was never returned by a
\* submit; a NotFound query leaves the table unchanged; no id leaves the table.
C7_NotFoundIffNeverReturned ==
    /\ [](last.op = "status" => (last.code = HTTP_404 <=> last.id \notin Range(returned)))
    /\ [](DOMAIN tasks = Range(returned))
    /\ [][(last'.op = "status" /\ last'.code = HTTP_404) => tasks' = tasks]_vars
    /\ [][DOMAIN tasks \subseteq DOMAIN tasks']_vars

\* a query for a finished task was answered, and one for an unknown id was not
C7_Witness ==
    /\ last.op = "status"
    /\ last.code = HTTP_200
    /\ last.body.status \in Terminal
    /\ \E id \in TaskIds : id \notin Range(returned)

\* C8 as stated: under fair scheduling, with every render call returning or raising, every
\* submitted task eventually is completed or failed (from some point on every task
\* of the table is, and stays, terminal); a renderer failure, an
\* exception and an empty urls list all end in failed with the error text; a
\* worker's step changes no other task's record.
C8_EveryTaskTerminates ==
    /\ <>[](\A id \in DOMAIN tasks : StatusOf(id) \in Terminal)
    /\ [](\A id \in DOMAIN tasks :
             (pc[id] = "done" /\ UrlRaises(req[id])) =>
                 tasks[id] = [status |-> "failed", error |-> "list index out of range"])
    /\ []((last.op = "process_crawl"
            /\ last.outcome \in {"failure", "exception", "success_bad", "timeout", "raised"}) =>
             (StatusOf(last.id) = "failed" /\ HasError(tasks[last.id])))
    /\ [][last'.op = "process_crawl" =>
             \A j \in DOMAIN tasks : j # last'.id => (j \in DOMAIN tasks' /\ tasks'[j] = tasks[j])]_vars

(***************************************************************************)
(* Properties of crawl_parallel                                            *)
(***************************************************************************)
\* the urls of the positions 1..n whose outcome was classified success, in order
RECURSIVE SuccessUrls(_, _)
SuccessUrls(c, n) ==
    IF n = 0 THEN <<>>
    ELSE SuccessUrls(c, n - 1)
         \o (IF c.hist[n] # "none" /\ Classify(c.hist[n]) = "success" THEN <<c.urls[n]>> ELSE <<>>)

IsPrefix(s, t) == Len(s) <= Len(t) /\ \A k \in 1..Len(s) : s[k] = t[k]

\* the urls of the records of results.jsonl, in file order
LoggedUrls(c) == [k \in 1..Len(c.results_file) |-> LoadsObject(c.results_file[k]).url]

\* positions whose batch has been processed and flushed entirely
FlushedUpTo(c) ==
    IF c.phase = "sleep" THEN Min(c.i + c.max_concurrent, Len(c.urls)) ELSE Min(c.i, Len(c.urls))

\* C9: when crawl_parallel returns it has run ceil(N/K) consecutive batches, each
\* of size K except possibly the last, every url has incremented exactly one
\* counter once, and success + failed + timeout + error = N.
C9_BatchesAndCounters ==
    cp.phase = "returned" =>
        LET n == Len(cp.urls)
            k == cp.max_concurrent
            b == Len(cp.sizes)
        IN /\ b = (n + k - 1) \div k
           /\ \A m \in 1..b : cp.sizes[m] = (IF m < b THEN k ELSE n - (b - 1) * k)
           /\ \A m \in 1..b : 1 <= cp.sizes[m] /\ cp.sizes[m] <= k
           /\ cp.stats.success + cp.stats.failed + cp.stats.timeout + cp.stats.error = n
           /\ \A m \in 1..n : cp.counted[m] = 1

\* a run of MaxUrls urls in batches of MaxBatch returned, its last batch short,
\* with every counter used
C9_Witness ==
    /\ cp.phase = "returned"
    /\ Len(cp.urls) = MaxUrls
    /\ cp.max_concurrent = MaxBatch
    /\ Len(cp.sizes) = 2
    /\ cp.sizes[2] < cp.max_concurrent
    /\ cp.stats.success > 0 /\ cp.stats.failed > 0 /\ cp.stats.timeout > 0 /\ cp.stats.error > 0

\* C10: while operations of a batch are in flight, every operation of the earlier
\* batches has settled and every successful result of the earlier batches is in
\* the results log; and at any time, also after an abort, the log starts with
\* the successful results of all batches processed before.
C10_BarrierBetweenBatches ==
    cp.phase # "idle" =>
        /\ LET flushed == SuccessUrls(cp, FlushedUpTo(cp))
               logged == LoggedUrls(cp)
           IN /\ IsPrefix(flushed, logged)
              /\ cp.phase # "aborted" => logged = flushed
        /\ DOMAIN cp.ops # {} =>
              /\ \A k \in DOMAIN cp.ops : k > cp.i
              /\ \A k \in 1..cp.i : cp.hist[k] # "none"
              /\ FlushedUpTo(cp) = cp.i

\* the run aborted in a later batch and the log holds an earlier batch's result
C10_Witness ==
    /\ cp.phase = "aborted"
    /\ cp.i > 0
    /\ \E k \in 1..cp.i : cp.hist[k] = "ok"
    /\ Len(cp.results_file) > 0

\* the counter the outcome of one operation belongs to
ExpectedClass(o) ==
    CASE o = "exc_timeout" -> "timeout"
      [] o = "not_success" -> "failed"
      [] o \in {"exc_other", "ok_bad", "cancelled"} -> "error"
      [] OTHER -> "success"

\* C11 as stated: each url is classified from the outcome of its own operation
\* only, whatever its siblings did: timeout for an exception whose text names a
\* timeout, failed for a result without success, error for any other exception,
\* success otherwise; once the results of a batch have been gone through every
\* url of it is classified; the counters are the numbers of urls of each class;
\* an operation that settles leaves its siblings' outcomes and running
\* operations as they are.
C11_ClassifiedByOwnOutcome ==
    /\ [](cp.phase # "idle" =>
            /\ \A k \in DOMAIN cp.cls :
                  cp.cls[k] # "none" => cp.cls[k] = ExpectedClass(cp.hist[k])
            /\ cp.phase # "gather" =>
                  \A k \in DOMAIN cp.cls : cp.hist[k] # "none" => cp.cls[k] # "none"
            /\ \A c \in DOMAIN cp.stats :
                  cp.stats[c] = Cardinality({k \in DOMAIN cp.cls : cp.cls[k] = c}))
    /\ [][(cp.phase = "gather" /\ cp'.phase = "gather") =>
             \E k \in DOMAIN cp.ops :
                 /\ cp.ops[k] = "running"
                 /\ \A j \in DOMAIN cp.ops : j # k => cp'.ops[j] = cp.ops[j]]_vars

\* C12 as stated: a record whose write fails does not abort the run: the batch
\* and the later batches go on and crawl_parallel returns its stats.
C12_WriteFailureIsolated ==
    (cp.phase # "idle" /\ ~cp.ok) => cp.phase \in {"sleep", "loop", "gather", "returned"}

\* C13 as stated: after a run the results log holds one record per url classified
\* success and the errors log one record per url classified failed, timeout or error.
C13_OneRecordPerItem ==
    cp.phase = "returned" =>
        /\ Len(cp.results_file) = cp.stats.success
        /\ Len(cp.errors_file) = cp.stats.failed + cp.stats.timeout + cp.stats.error

\* C14: both logs are append-only: at every step the content of each log before
\* the step is a prefix of its content after it.
C14_AppendOnly ==
    [][cp.phase # "idle" =>
          /\ IsPrefix(cp.results_file, cp'.results_file)
          /\ IsPrefix(cp.errors_file, cp'.errors_file)]_vars

\* a later batch's flush added records to a log that already held an earlier batch's
C14_Witness ==
    /\ cp.phase = "sleep"
    /\ cp.i > 0
    /\ \E k \in 1..cp.i : cp.hist[k] = "ok"
    /\ \E k \in (cp.i + 1)..Len(cp.urls) : cp.hist[k] = "ok"
    /\ Len(cp.results_file) >= 2

(***************************************************************************)
(* Properties of the requests                                              *)
(***************************************************************************)
\* the last request ran its handler's body
Served == last.op \in {"crawl", "status"} /\ last.code # HTTP_403

\* C15 as stated: with a secret configured, a submit or status request whose token
\* differs from the secret is not served: it creates no task and is shown no task
\* record; with no secret configured a request with any bearer token is served.
C15_TokenChecked ==
    last.op \in {"crawl", "status"} =>
        /\ (auth.api_token # "" /\ auth.credentials # auth.api_token) =>
              /\ ~(last.op = "crawl" /\ last.code = HTTP_200)
              /\ ~(last.op = "status" /\ last.code = HTTP_200)
              /\ ~Served
        /\ (auth.api_token = "" /\ auth.credentials # NoHeader) => Served

\* C16 as stated: no requested page_timeout is refused, and the renderer gets the
\* requested value clamped into [1000, 30000].
C16_ClampedNeverRejected ==
    /\ pt.phase # "rejected"
    /\ pt.phase = "handed" =>
          /\ pt.handed \in 1000..30000
          /\ pt.requested.given =>
                pt.handed = IF pt.requested.value < 1000 THEN 1000
                            ELSE IF pt.requested.value > 30000 THEN 30000
                            ELSE pt.requested.value

\* C16 amended: a request is refused exactly when its page_timeout is given and lies
\* outside [1000, 60000]; for an accepted one the renderer gets the smaller of the
\* requested value (30000 when left out) and 30000, which lies in [1000, 30000].
C16_CappedOrRejected ==
    /\ pt.phase = "rejected" =>
          /\ pt.requested.given
          /\ pt.requested.value < 1000 \/ pt.requested.value > 60000
    /\ pt.phase \in {"accepted", "handed"} =>
          \/ ~pt.requested.given
          \/ pt.requested.value \in 1000..60000
    /\ pt.phase = "handed" =>
          /\ pt.handed \in 1000..30000
          /\ pt.requested.given /\ pt.requested.value <= 30000 => pt.handed = pt.requested.value
          /\ pt.requested.given /\ pt.requested.value > 30000 => pt.handed = 30000
          /\ ~pt.requested.given => pt.handed = 30000

\* a request for more than 30000 ms was accepted and its timeout handed over
C16_Witness ==
    /\ pt.phase = "handed"
    /\ pt.requested.given /\ pt.requested.value > 30000
    /\ pt.handed = 30000

(***************************************************************************)
(* Properties of sitemap discovery                                         *)
(***************************************************************************)
\* every loc of the document ends in .xml
AllXml(locs) == locs # <<>> /\ \A i \in DOMAIN locs : EndsWith(locs[i], XmlSuffix)

\* no loc of the document ends in .xml
NoXml(locs) == \A i \in DOMAIN locs : ~EndsWith(locs[i], XmlSuffix)

\* the step requests a sub-sitemap of the current candidate
SubFetched == sm.phase = "index" /\ sm'.subs = Tail(sm.subs)

\* the step requests a candidate
CandidateFetched == sm.phase = "loop" /\ Len(sm'.tried) = Len(sm.tried) + 1

\* C17: under an index candidate whose locs all end in .xml the collection starts
\* empty, every sub-sitemap that is fetched and parsed adds exactly its loc values,
\* one that fails adds nothing and the sub-sitemaps after it are still requested;
\* the result of a winning index is what has been collected, so it is the
\* deduplicated union of the loc values of the sub-sitemaps that could be read.
C17_IndexUnion ==
    /\ [](sm.phase = "index" /\ AllXml(sm.top) =>
             /\ sm.subs # <<>>
             /\ Len(sm.subs) = Len(sm.top) => sm.urls = {})
    /\ [][SubFetched /\ AllXml(sm.top) =>
             /\ sm'.response.ok => sm'.urls = sm.urls \cup Range(sm'.response.locs)
             /\ ~sm'.response.ok => sm'.urls = sm.urls
             /\ Len(sm.subs) > 1 => sm'.phase = "index" /\ sm'.top = sm.top
             /\ Len(sm.subs) = 1 /\ sm'.urls # {} =>
                   sm'.phase = "returned" /\ sm'.winner = sm.c /\ sm'.top = sm.top]_vars

\* an index of two sub-sitemaps won with five URLs, the second one giving three
C17_Witness ==
    /\ sm.phase = "returned" /\ sm.winner # 0
    /\ Len(sm.top) = 2 /\ AllXml(sm.top) /\ sm.top[1] # sm.top[2]
    /\ sm.response.ok /\ Cardinality(Range(sm.response.locs)) = 3
    /\ Cardinality(sm.urls) = 5
    /\ \A u \in sm.urls : u # <<>> /\ ~EndsWith(u, XmlSuffix)

\* C18: when the winning candidate is flat, the result is exactly the set of the
\* loc values of that file.
C18_FlatExact ==
    (sm.phase = "returned" /\ sm.winner # 0 /\ NoXml(sm.top)) =>
        /\ sm.response = Parsed(sm.top)
        /\ sm.urls = Range(sm.top)
        /\ \A i \in DOMAIN sm.top : sm.top[i] \in sm.urls
        /\ \A u \in sm.urls : \E i \in DOMAIN sm.top : sm.top[i] = u

\* a flat file that lists one URL twice won, and the result has it once
C18_Witness ==
    /\ sm.phase = "returned" /\ sm.winner # 0 /\ NoXml(sm.top)
    /\ Len(sm.top) = 2 /\ sm.top[1] = sm.top[2] /\ sm.top[1] # <<>>
    /\ Cardinality(sm.urls) = 1

\* C19: the candidates are requested in the order of the list; a candidate is only
\* requested while nothing has been collected; the first candidate that leaves the
\* collection non-empty ends the loop, and nothing is requested after the return.
C19_FirstYieldingWins ==
    /\ [](sm.phase # "idle" =>
             /\ sm.tried = SubSeq(sitemap_locations, 1, Len(sm.tried))
             /\ sm.phase = "loop" => sm.urls = {} /\ Len(sm.tried) = sm.c - 1
             /\ sm.phase = "index" => Len(sm.tried) = sm.c
             /\ sm.phase = "returned" /\ sm.winner # 0 =>
                   sm.urls # {} /\ sm.winner = sm.c /\ Len(sm.tried) = sm.winner
             /\ sm.phase = "returned" /\ sm.winner = 0 =>
                   sm.urls = {} /\ Len(sm.tried) = Len(sitemap_locations))
    /\ [][/\ CandidateFetched /\ sm'.response.ok => sm'.urls \subseteq Range(sm'.response.locs)
          /\ SubFetched /\ sm'.urls # {} /\ Len(sm.subs) = 1 => sm'.phase = "returned"
          /\ sm.phase \in {"index", "returned", "exit", "crawl"} => sm'.tried = sm.tried]_vars

\* the first candidate gave nothing and the second one won
C19_Witness ==
    /\ sm.phase = "returned" /\ sm.winner = 2
    /\ sm.tried = <<"/sitemap.xml", "/sitemap_index.xml">>
    /\ sm.urls # {}

\* C20: no failure leaves get_sitemap_urls; a candidate that fails adds nothing and
\* the next one is requested (after the last one the result is empty); main leaves
\* exactly when the result is empty, and then there is no output directory, no
\* crawl_parallel run and no record.
C20_FailuresContained ==
    /\ [](sm.phase # "raised")
    /\ [](sm.phase = "exit" =>
             sm.urls = {} /\ ~sm.output_dir /\ ~sm.crawl /\ cp = CpIdle)
    /\ [](sm.phase = "crawl" => sm.urls # {})
    /\ [][/\ CandidateFetched /\ ~sm'.response.ok =>
                /\ sm'.urls = {}
                /\ sm.c < Len(sitemap_locations) => sm'.phase = "loop" /\ sm'.c = sm.c + 1
                /\ sm.c = Len(sitemap_locations) => sm'.phase = "returned" /\ sm'.winner = 0
          /\ SubFetched /\ ~sm'.response.ok /\ sm'.urls = {} /\ Len(sm.subs) = 1 =>
                /\ sm.c < Len(sitemap_locations) => sm'.phase = "loop" /\ sm'.c = sm.c + 1
                /\ sm.c = Len(sitemap_locations) => sm'.phase = "returned" /\ sm'.winner = 0
          /\ sm.phase = "returned" /\ sm.urls = {} => sm'.phase = "exit"]_vars

\* all four candidates failed, the last one on a parse error, and main has left
C20_Witness ==
    /\ sm.phase = "exit"
    /\ Len(sm.tried) = Len(sitemap_locations)
    /\ ~sm.response.ok /\ sm.response.error = "ParseError"
    /\ sm.urls = {} /\ ~sm.output_dir /\ ~sm.crawl

\* the loc ends in .xml
IsXml(text) == EndsWith(text, XmlSuffix)

\* C21: a candidate file with at least one loc ending in .xml adds none of its own
\* locs to the collection; exactly its .xml locs are requested, in document order,
\* and each such request adds nothing but the locs of the document it returns. So
\* a winning file with a single .xml loc yields exactly that sub-sitemap's locs.
C21_AnyXmlMakesIndex ==
    /\ [][CandidateFetched /\ sm'.response.ok
            /\ (\E i \in DOMAIN sm'.response.locs : IsXml(sm'.response.locs[i])) =>
                /\ sm'.phase = "index"
                /\ sm'.urls = {}
                /\ sm'.top = sm'.response.locs
                /\ sm'.subs = SelectSeq(sm'.response.locs, IsXml)]_vars
    /\ [][SubFetched =>
                sm'.urls \subseteq
                    sm.urls \cup (IF sm'.response.ok THEN Range(sm'.response.locs) ELSE {})]_vars
    /\ [](sm.phase = "returned" /\ sm.winner # 0 /\ Len(SelectSeq(sm.top, IsXml)) = 1 =>
             sm.response.ok /\ sm.urls = Range(sm.response.locs))

\* a file with a page loc and a .xml loc won, and the page loc is not in the result
C21_Witness ==
    /\ sm.phase = "returned" /\ sm.winner # 0 /\ sm.urls # {}
    /\ \E i \in DOMAIN sm.top : IsXml(sm.top[i])
    /\ \E i \in DOMAIN sm.top :
          sm.top[i] # <<>> /\ ~IsXml(sm.top[i]) /\ sm.top[i] \notin sm.urls

(***************************************************************************)
(* Properties of the results log                                           *)
(***************************************************************************)
\* the result_dict crawl_parallel built for the k-th successful url
Produced(k) == ResultDict(SuccessUrls(cp, Len(cp.urls))[k])

\* the k-th record of results.jsonl, read back
ReadBack(k) == Loads(cp.results_file[k])

\* C22 as stated: a record of the results log, read back, has the fields of the
\* result_dict built for its url, with the same values.
C22_RoundTripIdentical ==
    cp.phase # "idle" =>
        \A k \in 1..Len(cp.results_file) :
            /\ DOMAIN ReadBack(k) = DOMAIN Produced(k)
            /\ \A key \in DOMAIN Produced(k) : ReadBack(k)[key] = Produced(k)[key]

\* the record with the fields and values a result_dict d is to be found under once
\* written at time ts and read back
Restructured(d, ts) ==
    [url |-> d.url,
     timestamp |-> ts,
     content |-> [title |-> d.title, raw_markdown |-> d.raw_markdown,
                  fit_markdown |-> d.fit_markdown, summary |-> "", references |-> <<>>],
     metadata |-> [date |-> d.date, author |-> "", categories |-> d.categories,
                   tags |-> d.tags, word_count |-> d.word_count, relevance_score |-> 0],
     links |-> <<>>]

\* C22 amended: a record read back is the content record that was serialised: url
\* as in result_dict, a timestamp, title, raw_markdown and fit_markdown under
\* content, date, categories, tags and word_count under metadata, and the defaults
\* for summary, references, author, relevance_score and links.
C22_RestructuredRecord ==
    cp.phase # "idle" =>
        LET produced == SuccessUrls(cp, Len(cp.urls))
        IN /\ Len(cp.results_file) <= Len(produced)
           /\ \A k \in 1..Len(cp.results_file) :
                 LET r == ReadBack(k)
                 IN /\ r.timestamp \in 1..cp.clock
                    /\ r = Restructured(ResultDict(produced[k]), r.timestamp)

\* a run has returned with two records in the results log
C22_Witness ==
    /\ cp.phase = "returned"
    /\ Len(cp.results_file) = 2
    /\ ReadBack(1).url # ReadBack(2).url
    /\ ReadBack(2).content.title = Produced(2).title

(***************************************************************************)
(* More properties of sitemap discovery                                    *)
(***************************************************************************)
\* C23 as stated: sub-sitemaps that are themselves indexes are resolved in turn, so
\* what discovery returns, and main goes on to crawl, holds page URLs only and
\* never a loc that ends in .xml.
C23_OnlyLeafPages ==
    sm.phase \in {"returned", "crawl"} => \A u \in sm.urls : ~IsXml(u)

(***************************************************************************)
(* More properties of the server and of crawl_parallel                     *)
(***************************************************************************)
\* C24 as stated: two render operations that are active at the same time carry
\* different session identifiers, among the operations of a crawl_parallel run
\* and among the tasks that are inside crawler.arun in the server.
C24_DistinctSessions ==
    /\ cp.phase # "idle" =>
          \A j, k \in DOMAIN cp.ops :
              (j # k /\ cp.ops[j] = "running" /\ cp.ops[k] = "running") =>
                  cp.session[j] # cp.session[k]
    /\ \A a, b \in Rendering : a # b => ArunSessionId(a) # ArunSessionId(b)

\* C25 as stated: the active_tasks value of a health answer is the number of tasks
\* that are not terminal.
C25_ActiveTasksNonTerminal ==
    last.op = "health" =>
        last.body.active_tasks =
            Cardinality({id \in DOMAIN tasks : StatusOf(id) \notin Terminal})

\* C26 as stated: in every state the free slots and the tasks inside the guarded
\* section of process_crawl add up to K.
C26_FreePlusInsideIsK ==
    sem_value + Cardinality(Rendering) = MAX_CONCURRENT_TASKS

\* C26 amended: in every state the free slots, the tasks inside the guarded section
\* and the waiters that have been handed a slot but have not resumed yet add up to
\* K; a task that leaves the guarded section, whatever the outcome (an exception
\* that escapes the try block included), gives its slot back or hands it to a
\* waiter; once every submitted task is terminal, and once every worker has
\* ended, all K slots are free and nobody waits.
C26_SlotsConserved ==
    /\ [](/\ sem_value \in 0..MAX_CONCURRENT_TASKS
          /\ sem_value + Cardinality(Rendering)
                + Cardinality({id \in TaskIds : pc[id] = "woken"}) = MAX_CONCURRENT_TASKS)
    /\ []((\A id \in DOMAIN tasks : StatusOf(id) \in Terminal) =>
             /\ sem_value = MAX_CONCURRENT_TASKS
             /\ sem_waiters = <<>>
             /\ \A id \in TaskIds : pc[id] \in {"none", "done"})
    /\ []((\A id \in TaskIds : pc[id] \in {"none", "done"}) =>
             /\ sem_value = MAX_CONCURRENT_TASKS
             /\ sem_waiters = <<>>)
    /\ [][\A id \in TaskIds :
             (pc[id] = "rendering" /\ pc'[id] = "done") =>
                 \/ sem_value' = sem_value + 1
                 \/ /\ sem_value' = sem_value
                    /\ \E w \in TaskIds : pc[w] = "waiting" /\ pc'[w] = "woken"]_vars

\* a failed task has left and its slot has gone to a waiter that has not resumed
C26_Witness ==
    /\ \E id \in DOMAIN tasks : StatusOf(id) = "failed" /\ pc[id] = "done"
    /\ \E w \in TaskIds : pc[w] = "woken"
    /\ sem_value + Cardinality(Rendering) < MAX_CONCURRENT_TASKS

\* the task has been given a slot
Entered(p, id) == p[id] \in {"woken", "rendering", "done"}

\* C27: whatever the priorities of the requests, slots are given in the order of
\* submission: a task has a slot only if every task submitted before it has had
\* one, the waiters queue in the order of submission, the slot a leaving task
\* gives up goes to the waiter at the head of that queue, and no step changes a
\* stored request or its priority.
C27_PriorityIgnored ==
    /\ [](\A id \in TaskIds :
             Entered(pc, id) => \A j \in 1..(id - 1) : Entered(pc, j))
    /\ [](\A k \in 1..(Len(sem_waiters) - 1) : sem_waiters[k] < sem_waiters[k + 1])
    /\ [][\A id \in TaskIds :
             (~Entered(pc, id) /\ Entered(pc', id)) =>
                 /\ \A j \in DOMAIN tasks : j < id => Entered(pc, j)
                 /\ \A j \in DOMAIN tasks : j > id => ~Entered(pc', j)]_vars
    /\ [][\A id \in DOMAIN tasks : req'[id] = req[id]]_vars

\* two tasks wait for the slot, the later one with the higher priority, and the
\* slot has just gone to the earlier one
C27_Witness ==
    /\ DOMAIN tasks = {1, 2, 3}
    /\ req[2].priority = 1 /\ req[3].priority = 10
    /\ pc[1] = "done" /\ pc[2] = "woken" /\ pc[3] = "waiting"

\* the urls of a request after the first one
OtherUrls(r) ==
    IF Len(r.urls.items) = 0 THEN {}
    ELSE {r.urls.items[k] : k \in 2..Len(r.urls.items)} \ {r.urls.items[1]}

\* C28: a submit creates exactly one task, also for a list of urls; a completed
\* task's result.url is the single string or the first url of the list; no other
\* url of the list appears in the task's record, as result or as error.
C28_FirstUrlOnly ==
    /\ [](\A id \in DOMAIN tasks :
             /\ StatusOf(id) = "completed" =>
                   /\ Len(req[id].urls.items) >= 1
                   /\ tasks[id].result.url = req[id].urls.items[1]
                   /\ tasks[id].result.url \notin OtherUrls(req[id])
             /\ HasError(tasks[id]) => tasks[id].error \notin OtherUrls(req[id]))
    /\ [][uuid_calls' # uuid_calls =>
             /\ DOMAIN tasks' = DOMAIN tasks \cup {uuid_calls'}
             /\ uuid_calls' \notin DOMAIN tasks
             /\ Len(ready') = Len(ready) + 1
             /\ \A id \in DOMAIN tasks : tasks'[id] = tasks[id]]_vars

\* a task submitted with a list of two urls has completed with the first of them
C28_Witness ==
    \E id \in DOMAIN tasks :
        /\ ~req[id].urls.is_str
        /\ Len(req[id].urls.items) = 2
        /\ req[id].urls.items[1] # req[id].urls.items[2]
        /\ StatusOf(id) = "completed"
        /\ tasks[id].result.url = req[id].urls.items[1]

====
